---- MODULE Spec2Model ----
(***************************************************************************)
(* A model of the rush shell's execution engine (src/src/command.rs): the  *)
(* recursive Command::execute as a stack machine run by every process, the *)
(* processes it forks, their descriptor tables, process groups and the     *)
(* terminal's foreground process group; and of its front end, the lexer    *)
(* (src/src/lexer.rs) and the parser (src/src/parser.rs) applied to a line.*)
(***************************************************************************)
EXTENDS Integers, Sequences, FiniteSets, TLC

\* Process ids 1..MaxProcs exist; fork fails (EAGAIN) when none is left.
MaxProcs == 5
\* A descriptor table has the slots 0..MaxFd; dup/open/pipe fail (EMFILE) when full.
MaxFd == 5
\* The longest redirection list of the builtin commands of SpecBuiltin.
MaxRedirs == 2
\* The most SIGINTs one waiting parent catches.
MaxInterrupts == 1
\* The lines read have at most MaxLine characters.
MaxLine == 3
\* The lines of commands joined by operators have at most MaxOperators operators.
MaxOperators == 2
\* The lines with redirections are a command word and at most MaxTail characters.
MaxTail == 4

Pids == 1..MaxProcs
Fds == 0..MaxFd
ShellPid == 1

VARIABLES
    st,       \* pid -> "unused" | "shell" (runs the shell's code) | "prog" (an exec'd program) | "zombie" | "reaped"
    ppid,     \* pid -> the process that forked it (0: none)
    pgid,     \* pid -> its process group
    fds,      \* pid -> descriptor table, slot -> open file
    stack,    \* pid -> the frames of the nested execute calls, innermost last
    ret,      \* pid -> the value returned by the execute call that returned last
    wstatus,  \* pid -> the wait status of a terminated process
    ttyFg,    \* the terminal's foreground process group
    nPipes,   \* number of pipes created so far
    bg,       \* history: pid -> created by a Background fork, or by a process that was
    last,     \* history: pid -> the frame of the execute call that returned last
    fgExt,    \* history: an external simple command was forked outside any background job
    fds0,     \* history: the shell's descriptor table when the command line started
    files,    \* path -> what the command line did to the file: truncated it, wrote to it
    line,     \* the input line read, a sequence of characters
    stage,    \* what has been done with the line: "tokens", "parse"
    tokens,   \* the tokens of the line
    parsed    \* the result of parsing the line

\* The state of reading a line, left alone while a command executes.
front == <<line, stage, tokens, parsed>>
vars ==
    <<st, ppid, pgid, fds, stack, ret, wstatus, ttyFg, nPipes, bg, last, fgExt, fds0, files,
      line, stage, tokens, parsed>>

-----------------------------------------------------------------------------
(* Open files *)

Closed == [kind |-> "closed", path |-> "", pipe |-> 0]
Tty == [kind |-> "tty", path |-> "", pipe |-> 0]
File(path) == [kind |-> "file", path |-> path, pipe |-> 0]
FileRead(path) == [kind |-> "file_r", path |-> path, pipe |-> 0]
PipeRead(k) == [kind |-> "pipe_r", path |-> "", pipe |-> k]
PipeWrite(k) == [kind |-> "pipe_w", path |-> "", pipe |-> k]

\* Paths that open() cannot open (a missing file for O_RDONLY, an unwritable one).
Unopenable == {"x"}

AllClosed == [fd \in Fds |-> Closed]
\* The table the shell starts with: standard input, output and error on the terminal.
StdFds == [fd \in Fds |-> IF fd <= 2 THEN Tty ELSE Closed]

FreeFds(t) == {fd \in Fds : t[fd] = Closed}
Min(S) == CHOOSE x \in S : \A y \in S : x <= y
\* The lowest free slot, -1 when the table is full.
LowestFree(t) == IF FreeFds(t) = {} THEN -1 ELSE Min(FreeFds(t))

IsOpen(t, fd) == fd \in Fds /\ t[fd] # Closed

\* dup(fd): the new descriptor, -1 on failure.
DupFd(t, fd) == IF IsOpen(t, fd) THEN LowestFree(t) ELSE -1
DupTable(t, fd) == IF DupFd(t, fd) = -1 THEN t ELSE [t EXCEPT ![DupFd(t, fd)] = t[fd]]

\* dup2(old, new): nothing changes when old is not open or new is out of range.
Dup2(t, old, new) == IF IsOpen(t, old) /\ new \in Fds THEN [t EXCEPT ![new] = t[old]] ELSE t

\* close(fd)
Close(t, fd) == IF fd \in Fds THEN [t EXCEPT ![fd] = Closed] ELSE t

\* open(path): the new descriptor, -1 on failure.
OpenFd(t, path) == IF path \in Unopenable THEN -1 ELSE LowestFree(t)
OpenTable(t, path) == IF OpenFd(t, path) = -1 THEN t ELSE [t EXCEPT ![OpenFd(t, path)] = File(path)]
\* open(path, O_RDONLY)
OpenTableRead(t, path) ==
    IF OpenFd(t, path) = -1 THEN t ELSE [t EXCEPT ![OpenFd(t, path)] = FileRead(path)]

\* The files, as the command line found them.
AllPaths == {"a", "b", "x"}
Untouched == [path \in AllPaths |-> [truncated |-> FALSE, written |-> FALSE]]
\* open(path, O_WRONLY | O_CREAT | O_TRUNC) leaves the file empty.
Truncate(fs, paths) ==
    [path \in AllPaths |->
        IF path \in paths THEN [truncated |-> TRUE, written |-> FALSE] ELSE fs[path]]
\* write() to an open file; nothing is written through a read-only descriptor.
WriteTo(fs, file) ==
    IF file.kind = "file" THEN [fs EXCEPT ![file.path].written = TRUE] ELSE fs

-----------------------------------------------------------------------------
(* The command tree *)

NoFd == -1
Redirection(fd, operator, target) == [fd |-> fd, operator |-> operator, target |-> target]
TargetFile(path) == [kind |-> "File", path |-> path, fd |-> 0]
TargetFd(fd) == [kind |-> "FileDescriptor", path |-> "", fd |-> fd]

Simple(executable, redirects) ==
    [type |-> "Simple", executable |-> executable, redirects |-> redirects]
Binary(operator, left, right) ==
    [type |-> "Binary", operator |-> operator, left |-> left, right |-> right]
Group(group) == [type |-> "Group", group |-> group]

Operators == {"Semicolon", "Background", "And", "Or", "Pipe"}
RedirectOperators == {"Overwrite", "Append", "Input", "HereDoc", "DuplicateIn", "DuplicateOut"}

is_builtin(node) ==
    node.type = "Simple" /\ node.executable \in {"cd", "echo", "exit", "type"}

\* The descriptor a redirection acts on: its explicit fd, else 0 for the input-like
\* operators and 1 for the others.
TargetSlot(r) ==
    IF r.fd # NoFd THEN r.fd
    ELSE IF r.operator \in {"Input", "DuplicateIn", "HereDoc"} THEN 0 ELSE 1

\* The operators redirect() opens a file for.
OpensFile(operator) == operator \in {"Overwrite", "Append", "Input"}

\* A faulty redirection that leaves alone a descriptor an earlier redirection already
\* put on a file: the first redirection wins.
ApplyRedirection_FirstWins(t, r) ==
    IF r.target.kind = "File" /\ OpensFile(r.operator) /\ OpenFd(t, r.target.path) >= 0
       /\ TargetSlot(r) \in Fds /\ t[TargetSlot(r)].kind # "file"
    THEN [ok |-> TRUE,
          fds |-> Close(Dup2(OpenTable(t, r.target.path), OpenFd(t, r.target.path), TargetSlot(r)),
                        OpenFd(t, r.target.path))]
    ELSE [ok |-> TRUE, fds |-> t]

\* One redirection applied to table t: [ok, fds].
ApplyRedirection(t, r) ==
    IF r.target.kind = "File"
    THEN IF ~OpensFile(r.operator) THEN [ok |-> FALSE, fds |-> t]
         ELSE IF OpenFd(t, r.target.path) < 0 THEN [ok |-> FALSE, fds |-> t]
         ELSE [ok |-> TRUE,
               fds |-> Close(Dup2(IF r.operator = "Input" THEN OpenTableRead(t, r.target.path)
                                  ELSE OpenTable(t, r.target.path),
                                  OpenFd(t, r.target.path), TargetSlot(r)),
                             OpenFd(t, r.target.path))]
    ELSE [ok |-> TRUE, fds |-> Dup2(t, r.target.fd, TargetSlot(r))]

\* A faulty redirect() that skips a redirection that fails and reports success.
RECURSIVE RedirectFrom_IgnoresFailure(_, _, _)
RedirectFrom_IgnoresFailure(t, redirects, i) ==
    IF i > Len(redirects) THEN [ok |-> TRUE, fds |-> t]
    ELSE RedirectFrom_IgnoresFailure(ApplyRedirection(t, redirects[i]).fds, redirects, i + 1)

\* redirect(): the redirections in listed order, stopping at the first that fails.
RECURSIVE RedirectFrom(_, _, _)
RedirectFrom(t, redirects, i) ==
    IF i > Len(redirects) THEN [ok |-> TRUE, fds |-> t]
    ELSE LET one == ApplyRedirection(t, redirects[i])
         IN IF one.ok THEN RedirectFrom(one.fds, redirects, i + 1) ELSE one

redirect(t, node) == RedirectFrom(t, node.redirects, 1)

\* The files redirect() truncates: those it opens with O_TRUNC, up to the first
\* redirection that fails.
RECURSIVE TruncatedFrom(_, _, _)
TruncatedFrom(t, redirects, i) ==
    IF i > Len(redirects) THEN {}
    ELSE LET r == redirects[i]
             one == ApplyRedirection(t, r)
         IN (IF r.target.kind = "File" /\ r.operator = "Overwrite" /\ OpenFd(t, r.target.path) >= 0
             THEN {r.target.path} ELSE {})
            \cup (IF one.ok THEN TruncatedFrom(one.fds, redirects, i + 1) ELSE {})

-----------------------------------------------------------------------------
(* Frames of execute *)

NoSaved == [fd \in {} |-> 0]

NewFrame(node) ==
    [node |-> node, pc |-> "start",
     left_code |-> -1, pid |-> 0, left_pid |-> 0, right_pid |-> 0,
     shell_pgrp |-> 0, status |-> 0, read_end |-> -1, write_end |-> -1,
     saved_fds |-> NoSaved,
     \* history fields, read by the properties only
     pipe |-> 0, ran |-> {}, right_code |-> -1, body |-> FALSE, res |-> -1,
     interrupts |-> 0, child |-> 0]

NoFrame == [NewFrame(Group(0)) EXCEPT !.pc = "none"]

Top(p) == stack[p][Len(stack[p])]
Running(p) == st[p] = "shell" /\ Len(stack[p]) > 0
At(p, type, pc) == Running(p) /\ Top(p).node.type = type /\ Top(p).pc = pc
AtOp(p, operator, pc) == At(p, "Binary", pc) /\ Top(p).node.operator = operator

SetTop(s, f) == [s EXCEPT ![Len(s)] = f]
Pop(s) == SubSeq(s, 1, Len(s) - 1)

\* The running call continues as frame f.
Goto(p, f) ==
    /\ stack' = [stack EXCEPT ![p] = SetTop(@, f)]
    /\ UNCHANGED <<ret, last>>

\* The running call continues as frame f and calls execute on node.
Call(p, f, node) ==
    /\ stack' = [stack EXCEPT ![p] = Append(SetTop(@, f), NewFrame(node))]
    /\ UNCHANGED <<ret, last>>

\* The running call, in its final state f, returns code.
Return(p, f, code) ==
    /\ stack' = [stack EXCEPT ![p] = Pop(@)]
    /\ ret' = [ret EXCEPT ![p] = code]
    /\ last' = [last EXCEPT ![p] = [f EXCEPT !.res = code]]

-----------------------------------------------------------------------------
(* Wait statuses *)

W_EXITCODE(code) == (code % 256) * 256
W_SIGNALED(sig) == sig
WIFEXITED(status) == status % 128 = 0
WEXITSTATUS(status) == (status \div 256) % 256

\* exit(code): the process turns into a zombie and its descriptors are closed.
Exit(p, code) ==
    /\ st' = [st EXCEPT ![p] = "zombie"]
    /\ wstatus' = [wstatus EXCEPT ![p] = W_EXITCODE(code)]
    /\ fds' = [fds EXCEPT ![p] = AllClosed]
    /\ stack' = [stack EXCEPT ![p] = <<>>]

\* A signal whose action is the default one ends the process.
SIGPIPE == 13
Killed(p, sig) ==
    /\ st' = [st EXCEPT ![p] = "zombie"]
    /\ wstatus' = [wstatus EXCEPT ![p] = W_SIGNALED(sig)]
    /\ fds' = [fds EXCEPT ![p] = AllClosed]
    /\ stack' = [stack EXCEPT ![p] = <<>>]

\* The running processes that hold an open descriptor on file.
Holders(file) ==
    {q \in Pids : st[q] \in {"shell", "prog"} /\ \E fd \in Fds : fds[q][fd] = file}

\* A write to descriptor fd of p raises SIGPIPE: it is the write end of a pipe
\* whose read end no process holds.
BrokenPipe(p, fd) ==
    /\ fds[p][fd].kind = "pipe_w"
    /\ Holders(PipeRead(fds[p][fd].pipe)) = {}

-----------------------------------------------------------------------------
(* Simple command, builtin *)

\* The saving loop over the redirections from index i on: [ok, fds, saved].
RECURSIVE SaveFrom(_, _, _, _)
SaveFrom(t, saved, redirects, i) ==
    IF i > Len(redirects) THEN [ok |-> TRUE, fds |-> t, saved |-> saved]
    ELSE LET fd == TargetSlot(redirects[i])
         IN IF fd \in DOMAIN saved THEN SaveFrom(t, saved, redirects, i + 1)
            ELSE IF DupFd(t, fd) = -1 THEN [ok |-> FALSE, fds |-> t, saved |-> saved]
            ELSE SaveFrom(DupTable(t, fd), saved @@ (fd :> DupFd(t, fd)), redirects, i + 1)

RECURSIVE CloseAll(_, _)
CloseAll(t, S) ==
    IF S = {} THEN t
    ELSE LET fd == CHOOSE x \in S : TRUE IN CloseAll(Close(t, fd), S \ {fd})

\* The orders in which a HashMap with the keys S can be iterated.
Orders(S) == {o \in [1..Cardinality(S) -> S] : \A i, j \in DOMAIN o : o[i] = o[j] => i = j}

\* The restoring loop in iteration order o from index i on.
RECURSIVE RestoreFrom(_, _, _, _)
RestoreFrom(t, saved, o, i) ==
    IF i > Len(o) THEN t
    ELSE RestoreFrom(Close(Dup2(t, saved[o[i]], o[i]), saved[o[i]]), saved, o, i + 1)

\* What a builtin's body returns.
BuiltinCodes(executable) ==
    CASE executable = "cd" -> {0, 1}
      [] OTHER -> {0}

\* Lines 109-143: the descriptors are saved and the redirections applied.
SimpleBuiltinSetup(p) ==
    /\ At(p, "Simple", "start")
    /\ is_builtin(Top(p).node)
    /\ LET f == Top(p)
           s == SaveFrom(fds[p], NoSaved, f.node.redirects, 1)
           r == redirect(s.fds, f.node)
       IN IF ~s.ok
          THEN /\ fds' = [fds EXCEPT ![p] = CloseAll(s.fds, {s.saved[k] : k \in DOMAIN s.saved})]
               /\ Return(p, f, 1)
          ELSE IF ~r.ok
          THEN \E o \in Orders(DOMAIN s.saved) :
                  /\ fds' = [fds EXCEPT ![p] = RestoreFrom(r.fds, s.saved, o, 1)]
                  /\ Return(p, f, 1)
          ELSE /\ fds' = [fds EXCEPT ![p] = r.fds]
               /\ Goto(p, [f EXCEPT !.pc = "builtin", !.saved_fds = s.saved])
    /\ LET s == SaveFrom(fds[p], NoSaved, Top(p).node.redirects, 1)
       IN files' = IF s.ok THEN Truncate(files, TruncatedFrom(s.fds, Top(p).node.redirects, 1))
                   ELSE files
    /\ UNCHANGED <<st, ppid, pgid, wstatus, ttyFg, nPipes, bg, fgExt, fds0, front>>

\* Lines 145-154: the body runs, the saved descriptors are put back.
SimpleBuiltinRun(p) ==
    /\ At(p, "Simple", "builtin")
    /\ Top(p).node.executable # "exit"
    /\ ~(Top(p).node.executable = "echo" /\ BrokenPipe(p, 1))
    /\ LET f == Top(p)
       IN \E code \in BuiltinCodes(f.node.executable), o \in Orders(DOMAIN f.saved_fds) :
             /\ fds' = [fds EXCEPT ![p] = RestoreFrom(fds[p], f.saved_fds, o, 1)]
             /\ Return(p, [f EXCEPT !.body = TRUE], code)
    /\ files' = IF Top(p).node.executable = "echo" THEN WriteTo(files, fds[p][1]) ELSE files
    /\ UNCHANGED <<st, ppid, pgid, wstatus, ttyFg, nPipes, bg, fgExt, fds0, front>>

\* Line 321 with main.rs line 42: echo's println! to a pipe without a reader gets
\* SIGPIPE, whose action is the default one.
SimpleBuiltinSigpipe(p) ==
    /\ At(p, "Simple", "builtin")
    /\ Top(p).node.executable = "echo"
    /\ BrokenPipe(p, 1)
    /\ Killed(p, SIGPIPE)
    /\ UNCHANGED <<ppid, pgid, ret, ttyFg, nPipes, bg, last, fgExt, fds0, files, front>>

\* Lines 325-327: the exit builtin ends the process with status 0.
SimpleBuiltinExit(p) ==
    /\ At(p, "Simple", "builtin")
    /\ Top(p).node.executable = "exit"
    /\ Exit(p, 0)
    /\ UNCHANGED <<ppid, pgid, ret, ttyFg, nPipes, bg, last, fgExt, fds0, files, front>>

-----------------------------------------------------------------------------
(* Processes *)

Live == {"shell", "prog", "zombie"}
FreePids == {q \in Pids : st[q] = "unused"}

\* The ghost flags of a step that forks no background job and no foreground command.
NoMarks == UNCHANGED <<bg, fgExt, fds0, files, front>>

\* tcsetpgrp(0, pg) called by p while the process groups are groups and the foreground
\* group is tty: the terminal's foreground group afterwards. The call
\* fails when descriptor 0 is not the terminal (ENOTTY) or no process is in pg (EPERM);
\* SIGTTOU is ignored by the shell and all its children (main.rs:37).
tcsetpgrp(groups, tty, p, pg) ==
    IF fds[p][0] = Tty /\ (\E q \in Pids : st[q] \in Live /\ groups[q] = pg) THEN pg ELSE tty

\* The children waitpid(target) of p waits for: one child, or any child for -1.
Children(p) == {c \in Pids : ppid[c] = p /\ st[c] \in Live}
Awaited(p, target) == IF target = -1 THEN Children(p) ELSE Children(p) \cap {target}

\* waitpid(target, &status, 0): what it can return now, [reaped, status]. With no
\* such child it fails at once (ECHILD) and leaves status alone; with children but
\* no zombie among them it blocks.
waitpid(p, target, status) ==
    IF Awaited(p, target) = {} THEN {[reaped |-> 0, status |-> status]}
    ELSE {[reaped |-> z, status |-> wstatus[z]] : z \in {c \in Awaited(p, target) : st[c] = "zombie"}}

Reap(w) ==
    /\ st' = IF w.reaped = 0 THEN st ELSE [st EXCEPT ![w.reaped] = "reaped"]
    /\ UNCHANGED <<ppid, pgid, fds, wstatus, ttyFg, nPipes>>

\* fork() by p succeeded: child c starts as a copy of p, in frame childTop, while p
\* continues in frame parentTop and calls the nodes of calls (none or one). The
\* child's copy of the call that forked it is marked with the child's pid.
Forked(p, c, childTop, parentTop, calls, background) ==
    /\ st' = [st EXCEPT ![c] = "shell"]
    /\ ppid' = [ppid EXCEPT ![c] = p]
    /\ pgid' = [pgid EXCEPT ![c] = pgid[p]]
    /\ fds' = [fds EXCEPT ![c] = fds[p]]
    /\ stack' = [stack EXCEPT ![c] = SetTop(stack[p], [childTop EXCEPT !.child = c]),
                              ![p] = SetTop(@, parentTop) \o [i \in DOMAIN calls |-> NewFrame(calls[i])]]
    /\ ret' = [ret EXCEPT ![c] = ret[p]]
    /\ bg' = [bg EXCEPT ![c] = bg[p] \/ background]
    /\ last' = [last EXCEPT ![c] = NoFrame]
    /\ UNCHANGED <<wstatus, ttyFg, nPipes, fds0, files, front>>

-----------------------------------------------------------------------------
(* Simple command, external *)

\* What an exec'd program can end with: exit codes 0 and 2, or death by SIGKILL.
ProgStatuses == {W_EXITCODE(0), W_EXITCODE(2), W_SIGNALED(9)}

\* A faulty decoding that takes the exit code of a child that did not exit.
ExternalStatus_Unchecked(status) == WEXITSTATUS(status)

\* Lines 201-205: the status execute returns for wait status status.
ExternalStatus(status) == IF WIFEXITED(status) THEN WEXITSTATUS(status) ELSE 1

\* Lines 168-190: fork; the parent reads its own process group.
ExternalFork(p) ==
    /\ At(p, "Simple", "start")
    /\ ~is_builtin(Top(p).node)
    /\ \E ok \in BOOLEAN :
          IF ok /\ FreePids # {}
          THEN LET c == Min(FreePids)
               IN /\ Forked(p, c, [Top(p) EXCEPT !.pc = "child_setpgid"],
                            [Top(p) EXCEPT !.pc = "parent_setpgid", !.pid = c,
                                           !.shell_pgrp = pgid[p]],
                            <<>>, FALSE)
                  /\ fgExt' = (fgExt \/ ~bg[p])
          ELSE /\ Return(p, [Top(p) EXCEPT !.pid = -1], 1)
               /\ UNCHANGED <<st, ppid, pgid, fds, wstatus, ttyFg, nPipes>>
               /\ NoMarks

\* setpgid(pid, pgid) of process c: the process groups afterwards. The parent's call
\* fails (EACCES) once the child has exec'd.
setpgid(groups, c) == IF st[c] = "shell" THEN [groups EXCEPT ![c] = c] ELSE groups

\* Whether execvp finds the executable.
ExecFound(executable) == executable # "nosuch"

\* Lines 170-175: the child resets its signals, moves to its own process group and
\* makes it the terminal's foreground group.
ExternalChildSetup(p) ==
    /\ At(p, "Simple", "child_setpgid")
    /\ pgid' = setpgid(pgid, p)
    /\ ttyFg' = tcsetpgrp(pgid', ttyFg, p, p)
    /\ Goto(p, [Top(p) EXCEPT !.pc = "child_exec"])
    /\ UNCHANGED <<st, ppid, fds, wstatus, nPipes>>
    /\ NoMarks

\* A faulty child that returns 1 from execute when a redirection or the exec fails.
ExternalChildExec_ReturnsOnFailure(p) ==
    /\ At(p, "Simple", "child_exec")
    /\ LET r == redirect(fds[p], Top(p).node)
       IN IF r.ok /\ ExecFound(Top(p).node.executable)
          THEN /\ st' = [st EXCEPT ![p] = "prog"]
               /\ fds' = [fds EXCEPT ![p] = r.fds]
               /\ stack' = [stack EXCEPT ![p] = <<>>]
               /\ UNCHANGED <<wstatus, ret, last>>
          ELSE /\ Return(p, Top(p), 1)
               /\ UNCHANGED <<st, fds, wstatus>>
    /\ files' = Truncate(files, TruncatedFrom(fds[p], Top(p).node.redirects, 1))
    /\ UNCHANGED <<ppid, pgid, ttyFg, nPipes, bg, fgExt, fds0, front>>

\* Lines 177-184: the child applies the redirections and execs; it exits with 1
\* when a redirection or the exec fails.
ExternalChildExec(p) ==
    /\ At(p, "Simple", "child_exec")
    /\ LET r == redirect(fds[p], Top(p).node)
       IN IF r.ok /\ ExecFound(Top(p).node.executable)
          THEN /\ st' = [st EXCEPT ![p] = "prog"]
               /\ fds' = [fds EXCEPT ![p] = r.fds]
               /\ stack' = [stack EXCEPT ![p] = <<>>]
               /\ UNCHANGED wstatus
          ELSE Exit(p, 1)
    /\ files' = Truncate(files, TruncatedFrom(fds[p], Top(p).node.redirects, 1))
    /\ UNCHANGED <<ppid, pgid, ret, ttyFg, nPipes, last, bg, fgExt, fds0, front>>

\* The exec'd program ends, after it wrote its output, if any, to descriptor 1.
ProgramEnds(p) ==
    /\ st[p] = "prog"
    /\ \E w \in ProgStatuses :
          /\ st' = [st EXCEPT ![p] = "zombie"]
          /\ wstatus' = [wstatus EXCEPT ![p] = w]
    /\ \E wrote \in BOOLEAN : files' = IF wrote THEN WriteTo(files, fds[p][1]) ELSE files
    /\ fds' = [fds EXCEPT ![p] = AllClosed]
    /\ UNCHANGED <<ppid, pgid, stack, ret, ttyFg, nPipes, last, bg, fgExt, fds0, front>>

\* Lines 192-193: the parent puts the child in its own group and hands the terminal
\* to that group.
ExternalParentHandOver(p) ==
    /\ At(p, "Simple", "parent_setpgid")
    /\ pgid' = setpgid(pgid, Top(p).pid)
    /\ ttyFg' = tcsetpgrp(pgid', ttyFg, p, Top(p).pid)
    /\ Goto(p, [Top(p) EXCEPT !.pc = "parent_wait"])
    /\ UNCHANGED <<st, ppid, fds, wstatus, nPipes>>
    /\ NoMarks

\* Lines 195-205: the parent waits for the child, takes the terminal back and
\* returns the child's status.
ExternalParentWait(p) ==
    /\ At(p, "Simple", "parent_wait")
    /\ \E w \in waitpid(p, Top(p).pid, 0) :
          /\ st' = IF w.reaped = 0 THEN st ELSE [st EXCEPT ![w.reaped] = "reaped"]
          /\ ttyFg' = tcsetpgrp(pgid, ttyFg, p, Top(p).shell_pgrp)
          /\ Return(p, [Top(p) EXCEPT !.status = w.status], ExternalStatus(w.status))
    /\ UNCHANGED <<ppid, pgid, fds, wstatus, nPipes>>
    /\ NoMarks

-----------------------------------------------------------------------------
(* Simple command, external: every system call of parent and child a step of its own *)

\* Lines 170-173: the child resets SIGINT and SIGQUIT and moves to its own group.
ExternalChildSetpgid(p) ==
    /\ At(p, "Simple", "child_setpgid")
    /\ pgid' = setpgid(pgid, p)
    /\ Goto(p, [Top(p) EXCEPT !.pc = "child_tcsetpgrp"])
    /\ UNCHANGED <<st, ppid, fds, wstatus, ttyFg, nPipes>>
    /\ NoMarks

\* Line 175
ExternalChildTcsetpgrp(p) ==
    /\ At(p, "Simple", "child_tcsetpgrp")
    /\ ttyFg' = tcsetpgrp(pgid, ttyFg, p, p)
    /\ Goto(p, [Top(p) EXCEPT !.pc = "child_exec"])
    /\ UNCHANGED <<st, ppid, pgid, fds, wstatus, nPipes>>
    /\ NoMarks

\* A faulty parent that does not call setpgid.
ExternalParentSetpgid_Skipped(p) ==
    /\ At(p, "Simple", "parent_setpgid")
    /\ Goto(p, [Top(p) EXCEPT !.pc = "parent_tcsetpgrp"])
    /\ UNCHANGED <<st, ppid, pgid, fds, wstatus, ttyFg, nPipes>>
    /\ NoMarks

\* Line 192
ExternalParentSetpgid(p) ==
    /\ At(p, "Simple", "parent_setpgid")
    /\ pgid' = setpgid(pgid, Top(p).pid)
    /\ Goto(p, [Top(p) EXCEPT !.pc = "parent_tcsetpgrp"])
    /\ UNCHANGED <<st, ppid, fds, wstatus, ttyFg, nPipes>>
    /\ NoMarks

\* Line 193
ExternalParentTcsetpgrp(p) ==
    /\ At(p, "Simple", "parent_tcsetpgrp")
    /\ ttyFg' = tcsetpgrp(pgid, ttyFg, p, Top(p).pid)
    /\ Goto(p, [Top(p) EXCEPT !.pc = "parent_wait"])
    /\ UNCHANGED <<st, ppid, pgid, fds, wstatus, nPipes>>
    /\ NoMarks

\* Lines 195-196: waitpid returns.
ExternalParentWaitpid(p) ==
    /\ At(p, "Simple", "parent_wait")
    /\ \E w \in waitpid(p, Top(p).pid, 0) :
          /\ Reap(w)
          /\ Goto(p, [Top(p) EXCEPT !.pc = "parent_reclaim", !.status = w.status])
    /\ NoMarks

\* The parent is blocked in waitpid and catches a SIGINT.
Interruptible(p) ==
    /\ At(p, "Simple", "parent_wait")
    /\ waitpid(p, Top(p).pid, 0) = {}
    /\ Top(p).interrupts < MaxInterrupts

\* A handler installed without SA_RESTART: the interrupted waitpid fails with EINTR
\* and leaves status alone.
ExternalParentInterrupted_Eintr(p) ==
    /\ Interruptible(p)
    /\ Goto(p, [Top(p) EXCEPT !.pc = "parent_reclaim", !.interrupts = @ + 1])
    /\ UNCHANGED <<st, ppid, pgid, fds, wstatus, ttyFg, nPipes>>
    /\ NoMarks

\* main.rs lines 20-29 and 41: sigint_handler runs in the waiting parent; the
\* handler was installed with signal(), that is with SA_RESTART, so the waitpid of
\* line 196 is restarted when the handler returns.
ExternalParentInterrupted(p) ==
    /\ Interruptible(p)
    /\ Goto(p, [Top(p) EXCEPT !.interrupts = @ + 1])
    /\ UNCHANGED <<st, ppid, pgid, fds, wstatus, ttyFg, nPipes>>
    /\ NoMarks

\* Lines 198-205: the parent takes the terminal back and returns the status.
ExternalParentReclaim(p) ==
    /\ At(p, "Simple", "parent_reclaim")
    /\ ttyFg' = tcsetpgrp(pgid, ttyFg, p, Top(p).shell_pgrp)
    /\ Return(p, Top(p), ExternalStatus(Top(p).status))
    /\ UNCHANGED <<st, ppid, pgid, fds, wstatus, nPipes>>
    /\ NoMarks

-----------------------------------------------------------------------------
(* Binary: And, Or, Semicolon *)

\* A faulty && that never short-circuits.
AndRunsRight_Always(left_code) == TRUE
\* Line 258: the right side of && runs when the left returned 0.
AndRunsRight(left_code) == left_code = 0
\* A faulty || that always short-circuits.
OrRunsRight_Never(left_code) == FALSE
\* Line 266: the right side of || runs when the left did not return 0.
OrRunsRight(left_code) == left_code # 0

\* The left side is evaluated first (lines 257, 265, 273).
LeftFirst(p, operator) ==
    /\ AtOp(p, operator, "start")
    /\ Call(p, [Top(p) EXCEPT !.pc = "left_done", !.ran = {"left"}], Top(p).node.left)
    /\ UNCHANGED <<st, ppid, pgid, fds, wstatus, ttyFg, nPipes>>
    /\ NoMarks

\* The left side has returned: the right side is evaluated, or the left's code returned.
LeftDone(p, operator, runsRight) ==
    /\ AtOp(p, operator, "left_done")
    /\ LET f == [Top(p) EXCEPT !.left_code = ret[p]]
       IN IF runsRight
          THEN Call(p, [f EXCEPT !.pc = "right_done", !.ran = @ \cup {"right"}], f.node.right)
          ELSE Return(p, f, f.left_code)
    /\ UNCHANGED <<st, ppid, pgid, fds, wstatus, ttyFg, nPipes>>
    /\ NoMarks

\* The right side has returned: its code is the node's.
RightDone(p, operator) ==
    /\ AtOp(p, operator, "right_done")
    /\ Return(p, [Top(p) EXCEPT !.right_code = ret[p]], ret[p])
    /\ UNCHANGED <<st, ppid, pgid, fds, wstatus, ttyFg, nPipes>>
    /\ NoMarks

AndLeft(p) == LeftFirst(p, "And")
AndLeftDone(p) == LeftDone(p, "And", AndRunsRight(ret[p]))
AndRightDone(p) == RightDone(p, "And")

OrLeft(p) == LeftFirst(p, "Or")
OrLeftDone(p) == LeftDone(p, "Or", OrRunsRight(ret[p]))
OrRightDone(p) == RightDone(p, "Or")

SemicolonLeft(p) == LeftFirst(p, "Semicolon")
\* A faulty ; that skips the right side after a failure, as && does.
SemicolonLeftDone_ShortCircuit(p) == LeftDone(p, "Semicolon", ret[p] = 0)
\* Lines 273-274
SemicolonLeftDone(p) == LeftDone(p, "Semicolon", TRUE)
SemicolonRightDone(p) == RightDone(p, "Semicolon")

-----------------------------------------------------------------------------
(* Binary: Pipe *)

\* Lines 216-224: pipe(); the read end is the lowest free descriptor, the write end
\* the next one.
PipeCreate(p) ==
    /\ AtOp(p, "Pipe", "start")
    /\ \E ok \in BOOLEAN :
          IF ok /\ Cardinality(FreeFds(fds[p])) >= 2
          THEN LET r == LowestFree(fds[p])
                   w == Min(FreeFds(fds[p]) \ {r})
                   k == nPipes + 1
               IN /\ fds' = [fds EXCEPT ![p] = [@ EXCEPT ![r] = PipeRead(k), ![w] = PipeWrite(k)]]
                  /\ nPipes' = k
                  /\ Goto(p, [Top(p) EXCEPT !.pc = "fork_left", !.read_end = r,
                                            !.write_end = w, !.pipe = k])
          ELSE /\ Return(p, Top(p), 1)
               /\ UNCHANGED <<fds, nPipes>>
    /\ UNCHANGED <<st, ppid, pgid, wstatus, ttyFg>>
    /\ NoMarks

\* A fork of the pipeline: the child continues at childPc, the parent at parentPc
\* with the fork's result in its variable; a failed fork is not looked at.
PipeFork(p, pc, childPc, parentPc, left) ==
    /\ AtOp(p, "Pipe", pc)
    /\ \E ok \in BOOLEAN :
          LET c == IF ok /\ FreePids # {} THEN Min(FreePids) ELSE -1
              f == IF left THEN [Top(p) EXCEPT !.pc = parentPc, !.left_pid = c]
                           ELSE [Top(p) EXCEPT !.pc = parentPc, !.right_pid = c]
          IN IF c # -1
             THEN /\ Forked(p, c, [Top(p) EXCEPT !.pc = childPc], f, <<>>, FALSE)
                  /\ UNCHANGED fgExt
             ELSE /\ Goto(p, f)
                  /\ UNCHANGED <<st, ppid, pgid, fds, wstatus, ttyFg, nPipes>>
                  /\ NoMarks

\* Line 225
PipeForkLeft(p) == PipeFork(p, "fork_left", "left_child", "fork_right", TRUE)
\* Line 235
PipeForkRight(p) == PipeFork(p, "fork_right", "right_child", "close_read", FALSE)

\* Lines 227-231: the left child puts the write end on its standard output and
\* evaluates the left side.
PipeLeftChild(p) ==
    /\ AtOp(p, "Pipe", "left_child")
    /\ fds' = [fds EXCEPT ![p] = Close(Dup2(Close(@, Top(p).read_end), Top(p).write_end, 1),
                                        Top(p).write_end)]
    /\ Call(p, [Top(p) EXCEPT !.pc = "child_exit"], Top(p).node.left)
    /\ UNCHANGED <<st, ppid, pgid, wstatus, ttyFg, nPipes>>
    /\ NoMarks

\* A faulty right child that does not close the write end it inherited.
PipeRightChild_KeepsWriteEnd(p) ==
    /\ AtOp(p, "Pipe", "right_child")
    /\ fds' = [fds EXCEPT ![p] = Close(Dup2(@, Top(p).read_end, 0), Top(p).read_end)]
    /\ Call(p, [Top(p) EXCEPT !.pc = "child_exit"], Top(p).node.right)
    /\ UNCHANGED <<st, ppid, pgid, wstatus, ttyFg, nPipes>>
    /\ NoMarks

\* Lines 237-241: the right child puts the read end on its standard input and
\* evaluates the right side.
PipeRightChild(p) ==
    /\ AtOp(p, "Pipe", "right_child")
    /\ fds' = [fds EXCEPT ![p] = Close(Dup2(Close(@, Top(p).write_end), Top(p).read_end, 0),
                                        Top(p).read_end)]
    /\ Call(p, [Top(p) EXCEPT !.pc = "child_exit"], Top(p).node.right)
    /\ UNCHANGED <<st, ppid, pgid, wstatus, ttyFg, nPipes>>
    /\ NoMarks

\* Lines 231, 241, 284: a forked child exits with the status of its side.
ChildExit(p) ==
    /\ Running(p)
    /\ Top(p).node.type = "Binary"
    /\ Top(p).pc = "child_exit"
    /\ Exit(p, ret[p])
    /\ UNCHANGED <<ppid, pgid, ret, ttyFg, nPipes, last>>
    /\ NoMarks

\* A faulty parent that keeps the write end open while it waits.
PipeClose_KeepsWriteEnd(p) ==
    /\ AtOp(p, "Pipe", "close_read")
    /\ fds' = [fds EXCEPT ![p] = Close(@, Top(p).read_end)]
    /\ Goto(p, [Top(p) EXCEPT !.pc = "wait_left"])
    /\ UNCHANGED <<st, ppid, pgid, wstatus, ttyFg, nPipes>>
    /\ NoMarks

\* Lines 246-247: the parent closes its two ends of the pipe.
PipeClose(p) ==
    /\ AtOp(p, "Pipe", "close_read")
    /\ fds' = [fds EXCEPT ![p] = Close(Close(@, Top(p).read_end), Top(p).write_end)]
    /\ Goto(p, [Top(p) EXCEPT !.pc = "wait_left"])
    /\ UNCHANGED <<st, ppid, pgid, wstatus, ttyFg, nPipes>>
    /\ NoMarks

\* Lines 249-250
PipeWaitLeft(p) ==
    /\ AtOp(p, "Pipe", "wait_left")
    /\ \E w \in waitpid(p, Top(p).left_pid, 0) :
          /\ Reap(w)
          /\ Goto(p, [Top(p) EXCEPT !.pc = "wait_right", !.status = w.status])
    /\ NoMarks

\* Lines 251-253
PipeWaitRight(p) ==
    /\ AtOp(p, "Pipe", "wait_right")
    /\ \E w \in waitpid(p, Top(p).right_pid, Top(p).status) :
          /\ Reap(w)
          /\ Return(p, [Top(p) EXCEPT !.status = w.status], WEXITSTATUS(w.status))
    /\ NoMarks

-----------------------------------------------------------------------------
(* Binary: Background, and Group *)

\* Lines 277-287: fork; the parent evaluates the right side at once.
BackgroundFork(p) ==
    /\ AtOp(p, "Background", "start")
    /\ \E ok \in BOOLEAN :
          IF ok /\ FreePids # {}
          THEN LET c == Min(FreePids)
               IN /\ Forked(p, c, [Top(p) EXCEPT !.pc = "child"],
                            [Top(p) EXCEPT !.pc = "right_done", !.pid = c, !.ran = {"right"}],
                            <<Top(p).node.right>>, TRUE)
                  /\ UNCHANGED fgExt
          ELSE /\ Return(p, [Top(p) EXCEPT !.pid = -1], 1)
               /\ UNCHANGED <<st, ppid, pgid, fds, wstatus, ttyFg, nPipes>>
               /\ NoMarks

\* Line 283: the child evaluates the left side.
BackgroundChild(p) ==
    /\ AtOp(p, "Background", "child")
    /\ Call(p, [Top(p) EXCEPT !.pc = "child_exit", !.ran = {"left"}], Top(p).node.left)
    /\ UNCHANGED <<st, ppid, pgid, fds, wstatus, ttyFg, nPipes>>
    /\ NoMarks

\* Line 286: the right side's status is the node's.
BackgroundRightDone(p) == RightDone(p, "Background")

\* Line 291
GroupCall(p) ==
    /\ At(p, "Group", "start")
    /\ Call(p, [Top(p) EXCEPT !.pc = "group_done"], Top(p).node.group)
    /\ UNCHANGED <<st, ppid, pgid, fds, wstatus, ttyFg, nPipes>>
    /\ NoMarks

GroupDone(p) ==
    /\ At(p, "Group", "group_done")
    /\ Return(p, Top(p), ret[p])
    /\ UNCHANGED <<st, ppid, pgid, fds, wstatus, ttyFg, nPipes>>
    /\ NoMarks

-----------------------------------------------------------------------------
(* The lexer: Lexer is the input and a position in it, 0-based as in the source *)

Token(type) == [type |-> type, text |-> <<>>, operator |-> ""]
Word(text) == [type |-> "Word", text |-> text, operator |-> ""]
SingleQuoted(text) == [type |-> "SingleQuoted", text |-> text, operator |-> ""]
DoubleQuoted(text) == [type |-> "DoubleQuoted", text |-> text, operator |-> ""]
RedirectOperatorToken(operator) == [type |-> "RedirectOperator", text |-> <<>>, operator |-> operator]
EOF == Token("EOF")

\* peek(): the character at position, "" past the end.
peek(input, position) == IF position < Len(input) THEN input[position + 1] ELSE ""

is_whitespace(c) == c = " "
is_operator(c) == c \in {";", "|", "&", ">", "<", "(", ")"}

RECURSIVE skip_whitespace(_, _)
skip_whitespace(input, position) ==
    IF position < Len(input) /\ is_whitespace(input[position + 1])
    THEN skip_whitespace(input, position + 1)
    ELSE position

\* The handlers return [token, position].
handle_semicolon(input, position) == [token |-> Token("Semicolon"), position |-> position + 1]

handle_pipe(input, position) ==
    IF peek(input, position + 1) = "|"
    THEN [token |-> Token("Or"), position |-> position + 2]
    ELSE [token |-> Token("Pipe"), position |-> position + 1]

handle_ampersand(input, position) ==
    IF peek(input, position + 1) = "&"
    THEN [token |-> Token("And"), position |-> position + 2]
    ELSE [token |-> Token("Background"), position |-> position + 1]

handle_redirect_in(input, position) ==
    CASE peek(input, position + 1) = "<" ->
            [token |-> RedirectOperatorToken("HereDoc"), position |-> position + 2]
      [] peek(input, position + 1) = "&" ->
            [token |-> RedirectOperatorToken("DuplicateIn"), position |-> position + 2]
      [] OTHER -> [token |-> RedirectOperatorToken("Input"), position |-> position + 1]

handle_redirect_out(input, position) ==
    CASE peek(input, position + 1) = "<" ->
            [token |-> RedirectOperatorToken("Append"), position |-> position + 2]
      [] peek(input, position + 1) = "&" ->
            [token |-> RedirectOperatorToken("DuplicateOut"), position |-> position + 2]
      [] OTHER -> [token |-> RedirectOperatorToken("Overwrite"), position |-> position + 1]

handle_parentheses(input, position) ==
    IF peek(input, position) = "("
    THEN [token |-> Token("LParen"), position |-> position + 1]
    ELSE [token |-> Token("RParen"), position |-> position + 1]

\* The loop of read_quoted from position on, content read so far: [text, position].
RECURSIVE read_quoted_from(_, _, _, _)
read_quoted_from(input, position, quote, content) ==
    IF position >= Len(input) THEN [text |-> content, position |-> position]
    ELSE LET c == input[position + 1]
         IN IF c = quote THEN [text |-> content, position |-> position + 1]
            ELSE IF c = "\\" /\ quote = "\""
            THEN IF position + 1 < Len(input)
                 THEN read_quoted_from(input, position + 2, quote, Append(content, input[position + 2]))
                 ELSE read_quoted_from(input, position + 1, quote, content)
            ELSE read_quoted_from(input, position + 1, quote, Append(content, c))

read_quoted(input, position, quote) == read_quoted_from(input, position + 1, quote, <<>>)

read_single_quoted(input, position) ==
    LET token(content) == [token |-> SingleQuoted(content.text), position |-> content.position]
    IN token(read_quoted(input, position, "'"))

read_double_quoted(input, position) ==
    LET token(content) == [token |-> DoubleQuoted(content.text), position |-> content.position]
    IN token(read_quoted(input, position, "\""))

RECURSIVE read_word_from(_, _, _)
read_word_from(input, position, word) ==
    IF position >= Len(input) THEN [token |-> Word(word), position |-> position]
    ELSE LET c == input[position + 1]
         IN IF is_whitespace(c) \/ is_operator(c) THEN [token |-> Word(word), position |-> position]
            ELSE read_word_from(input, position + 1, Append(word, c))

read_word(input, position) == read_word_from(input, position, <<>>)

\* next_token(): [token, position].
next_token(input, position) ==
    LET match(at, c) ==
            CASE at >= Len(input) -> [token |-> EOF, position |-> at]
              [] c = ";" -> handle_semicolon(input, at)
              [] c = "|" -> handle_pipe(input, at)
              [] c = "&" -> handle_ampersand(input, at)
              [] c = ">" -> handle_redirect_out(input, at)
              [] c = "<" -> handle_redirect_in(input, at)
              [] c \in {"(", ")"} -> handle_parentheses(input, at)
              [] c = "'" -> read_single_quoted(input, at)
              [] c = "\"" -> read_double_quoted(input, at)
              [] OTHER -> read_word(input, at)
        skipped(at) == match(at, peek(input, at))
    IN skipped(skip_whitespace(input, position))

\* tokens(): the tokens up to EOF.
RECURSIVE tokens_from(_, _)
tokens_from(input, position) ==
    LET push(t) == IF t.token = EOF THEN <<>> ELSE <<t.token>> \o tokens_from(input, t.position)
    IN push(next_token(input, position))

-----------------------------------------------------------------------------
(* The parser: Parser is the lexer's position and current_token *)

SimpleCommand(executable, args, redirects) ==
    [type |-> "Simple", executable |-> executable, args |-> args, redirects |-> redirects]
Pipeline(left, right) == [type |-> "Pipeline", left |-> left, right |-> right]
List(commands, separators) == [type |-> "List", commands |-> commands, separators |-> separators]
ParsedRedirection(fd, direction, target) == [fd |-> fd, direction |-> direction, target |-> target]
RedirectTargetFile(t) == [kind |-> "File", path |-> t]

Ok(value, parser) == [ok |-> TRUE, value |-> value, error |-> "", parser |-> parser]
Err(error, parser) == [ok |-> FALSE, value |-> <<>>, error |-> error, parser |-> parser]

\* Parser::new and advance: current_token is the lexer's next token.
advance(input, position) ==
    LET parser(t) == [position |-> t.position, current_token |-> t.token]
    IN parser(next_token(input, position))

ParserNew(input) == advance(input, 0)

\* str::parse::<u32>: digits after an optional +, -1 for Err. A number above
\* u32::MAX is an Err; the lines modelled are too short for the ten digits that
\* takes, and numbers of at most nine digits are all that is read here.
Digits == <<"0", "1", "2", "3", "4", "5", "6", "7", "8", "9">>
IsDigit(c) == \E d \in 1..10 : Digits[d] = c
DigitValue(c) == (CHOOSE d \in 1..10 : Digits[d] = c) - 1

RECURSIVE DecimalValue(_)
DecimalValue(text) ==
    IF text = <<>> THEN 0
    ELSE 10 * DecimalValue(SubSeq(text, 1, Len(text) - 1)) + DigitValue(text[Len(text)])

parse_u32(text) ==
    LET digits == IF text # <<>> /\ text[1] = "+" THEN Tail(text) ELSE text
    IN IF digits # <<>> /\ Len(digits) <= 9 /\ (\A i \in 1..Len(digits) : IsDigit(digits[i]))
       THEN DecimalValue(digits) ELSE -1

IsText(token) == token.type \in {"Word", "SingleQuoted", "DoubleQuoted"}

\* A faulty sub-parse that never reads a descriptor: an integer after the operator
\* is taken as the target.
parse_redirection_NoDescriptor(input, parser) ==
    IF parser.current_token.type # "RedirectOperator"
    THEN Err("Expected redirect operator", parser)
    ELSE LET target(direction, at) ==
                 IF IsText(at.current_token)
                 THEN Ok(ParsedRedirection(IF direction \in {"Overwrite", "Append", "DuplicateOut"}
                                           THEN 1 ELSE 0,
                                           direction, RedirectTargetFile(at.current_token.text)),
                         advance(input, at.position))
                 ELSE Err("Invalid redirect target", at)
         IN target(parser.current_token.operator, advance(input, parser.position))

parse_redirection(input, parser) ==
    LET default(rt) == IF rt \in {"Overwrite", "Append", "DuplicateOut"} THEN 1 ELSE 0
        target(fd, direction, at) ==
            IF IsText(at.current_token)
            THEN Ok(ParsedRedirection(fd, direction, RedirectTargetFile(at.current_token.text)),
                    advance(input, at.position))
            ELSE Err("Invalid redirect target", at)
        explicit(rt, at, num) ==
            IF num >= 0 THEN target(num, rt, advance(input, at.position))
            ELSE target(default(rt), rt, at)
        descriptor(rt, at) ==
            explicit(rt, at, IF at.current_token.type = "Word"
                             THEN parse_u32(at.current_token.text) ELSE -1)
    IN IF parser.current_token.type # "RedirectOperator"
       THEN Err("Expected redirect operator", parser)
       ELSE descriptor(parser.current_token.operator, advance(input, parser.position))

\* The loop of parse_command and what follows it.
RECURSIVE parse_command_from(_, _, _, _)
parse_command_from(input, parser, words, redirects) ==
    LET push(r) ==
            IF r.ok THEN parse_command_from(input, r.parser, words, Append(redirects, r.value))
            ELSE r
    IN CASE IsText(parser.current_token) ->
               parse_command_from(input, advance(input, parser.position),
                                  Append(words, parser.current_token.text), redirects)
         [] parser.current_token.type = "RedirectOperator" ->
               push(parse_redirection(input, parser))
         [] OTHER ->
               IF words = <<>> THEN Err("Empty command", parser)
               ELSE Ok(SimpleCommand(Head(words), Tail(words), redirects), parser)

parse_command(input, parser) == parse_command_from(input, parser, <<>>, <<>>)

\* The loop of parse_pipeline.
RECURSIVE parse_pipeline_from(_, _, _)
parse_pipeline_from(input, parser, left) ==
    LET pipe(right) ==
            IF right.ok THEN parse_pipeline_from(input, right.parser, Pipeline(left, right.value))
            ELSE right
    IN IF parser.current_token.type = "Pipe"
       THEN pipe(parse_command(input, advance(input, parser.position)))
       ELSE Ok(left, parser)

parse_pipeline(input, parser) ==
    LET first(left) == IF left.ok THEN parse_pipeline_from(input, left.parser, left.value) ELSE left
    IN first(parse_command(input, parser))

\* The loop of parse_list and what follows it.
RECURSIVE parse_list_from(_, _, _, _)
parse_list_from(input, parser, commands, separators) ==
    LET push(sep, pipeline) ==
            IF pipeline.ok
            THEN parse_list_from(input, pipeline.parser, Append(commands, pipeline.value),
                                 Append(separators, sep))
            ELSE pipeline
    IN IF parser.current_token.type \in {"Semicolon", "And", "Or", "Background"}
       THEN push(parser.current_token.type, parse_pipeline(input, advance(input, parser.position)))
       ELSE IF Len(commands) = 1 THEN Ok(commands[1], parser)
       ELSE Ok(List(commands, separators), parser)

parse_list(input, parser) ==
    LET first(pipeline) ==
            IF pipeline.ok THEN parse_list_from(input, pipeline.parser, <<pipeline.value>>, <<>>)
            ELSE pipeline
    IN first(parse_pipeline(input, parser))

parse(input, parser) == parse_list(input, parser)

\* No line parsed yet.
NoResult == [ok |-> FALSE, command |-> <<>>, error |-> "", current_token |-> EOF]

\* The shell without a command to execute, and line as the line read.
ReadLine(input) ==
    /\ st = [p \in Pids |-> IF p = ShellPid THEN "shell" ELSE "unused"]
    /\ ppid = [p \in Pids |-> 0]
    /\ pgid = [p \in Pids |-> IF p = ShellPid THEN ShellPid ELSE 0]
    /\ fds = [p \in Pids |-> IF p = ShellPid THEN StdFds ELSE AllClosed]
    /\ stack = [p \in Pids |-> <<>>]
    /\ ret = [p \in Pids |-> -1]
    /\ wstatus = [p \in Pids |-> 0]
    /\ ttyFg = ShellPid
    /\ nPipes = 0
    /\ bg = [p \in Pids |-> FALSE]
    /\ last = [p \in Pids |-> NoFrame]
    /\ fgExt = FALSE
    /\ fds0 = StdFds
    /\ files = Untouched
    /\ line = input
    /\ stage = {}
    /\ tokens = <<>>
    /\ parsed = NoResult

\* Lexer::new(line).tokens()
Tokenize ==
    /\ "tokens" \notin stage
    /\ stack[ShellPid] = <<>>
    /\ tokens' = tokens_from(line, 0)
    /\ stage' = stage \cup {"tokens"}
    /\ UNCHANGED <<st, ppid, pgid, fds, stack, ret, wstatus, ttyFg, nPipes, bg, last, fgExt,
                   fds0, files, line, parsed>>

\* Parser::new(Lexer::new(line)).parse(): the command or the error, and the
\* parser's current_token when parse returns.
Parse ==
    /\ "parse" \notin stage
    /\ stack[ShellPid] = <<>>
    /\ LET result(r) == [ok |-> r.ok, command |-> r.value, error |-> r.error,
                         current_token |-> r.parser.current_token]
       IN parsed' = result(parse(line, ParserNew(line)))
    /\ stage' = stage \cup {"parse"}
    /\ UNCHANGED <<st, ppid, pgid, fds, stack, ret, wstatus, ttyFg, nPipes, bg, last, fgExt,
                   fds0, files, line, tokens>>

\* The lines of at most n characters of alphabet.
Lines(alphabet, n) == UNION {[1..k -> alphabet] : k \in 0..n}

-----------------------------------------------------------------------------
(* The builtin commands alone: one shell process, one builtin with redirections *)

Paths == {"a", "x"}
RedirectFds == {NoFd, 3}
RedirectTargets == {TargetFile(path) : path \in Paths} \cup {TargetFd(2)}
Redirections ==
    {Redirection(fd, operator, target) :
        fd \in RedirectFds, operator \in RedirectOperators, target \in RedirectTargets}

RECURSIVE SeqsUpTo(_, _)
SeqsUpTo(S, n) ==
    IF n = 0 THEN {<<>>}
    ELSE SeqsUpTo(S, n - 1) \cup {Append(s, x) : s \in {t \in SeqsUpTo(S, n - 1) : Len(t) = n - 1}, x \in S}

BuiltinCommands ==
    {Simple(executable, redirects) :
        executable \in {"cd", "echo", "exit"}, redirects \in SeqsUpTo(Redirections, MaxRedirs)}

InitWith(command) ==
    /\ st = [p \in Pids |-> IF p = ShellPid THEN "shell" ELSE "unused"]
    /\ ppid = [p \in Pids |-> 0]
    /\ pgid = [p \in Pids |-> IF p = ShellPid THEN ShellPid ELSE 0]
    /\ fds = [p \in Pids |-> IF p = ShellPid THEN StdFds ELSE AllClosed]
    /\ stack = [p \in Pids |-> IF p = ShellPid THEN <<NewFrame(command)>> ELSE <<>>]
    /\ ret = [p \in Pids |-> -1]
    /\ wstatus = [p \in Pids |-> 0]
    /\ ttyFg = ShellPid
    /\ nPipes = 0
    /\ bg = [p \in Pids |-> FALSE]
    /\ last = [p \in Pids |-> NoFrame]
    /\ fgExt = FALSE
    /\ fds0 = StdFds
    /\ files = Untouched
    /\ line = <<>>
    /\ stage = {}
    /\ tokens = <<>>
    /\ parsed = NoResult

InitBuiltin == \E command \in BuiltinCommands : InitWith(command)

NextBuiltin ==
    \/ SimpleBuiltinSetup(ShellPid)
    \/ SimpleBuiltinRun(ShellPid)
    \/ SimpleBuiltinExit(ShellPid)

SpecBuiltin == InitBuiltin /\ [][NextBuiltin]_vars

-----------------------------------------------------------------------------
(* One simple command, builtin or external, with output redirections to files *)

OutputRedirections ==
    {Redirection(fd, operator, TargetFile(path)) :
        fd \in {NoFd, 1}, operator \in {"Overwrite", "Append"}, path \in {"a", "b"}}
RedirectCommands ==
    {Simple(executable, redirects) :
        executable \in {"echo", "ls"}, redirects \in SeqsUpTo(OutputRedirections, MaxRedirs)}

InitRedirect == \E command \in RedirectCommands : InitWith(command)

NextRedirect ==
    \E p \in Pids :
        \/ SimpleBuiltinSetup(p)
        \/ SimpleBuiltinRun(p)
        \/ ExternalFork(p)
        \/ ExternalChildSetup(p)
        \/ ExternalChildExec(p)
        \/ ProgramEnds(p)
        \/ ExternalParentHandOver(p)
        \/ ExternalParentWait(p)

SpecRedirect == InitRedirect /\ [][NextRedirect]_vars

-----------------------------------------------------------------------------
(* One simple command, builtin or external, with redirections that can fail *)

FileRedirections ==
    {Redirection(NoFd, operator, TargetFile(path)) :
        operator \in RedirectOperators, path \in {"a", "x"}}
FailingCommands ==
    {Simple(executable, redirects) :
        executable \in {"echo", "cd", "exit", "ls"},
        redirects \in SeqsUpTo(FileRedirections, MaxRedirs)}

InitFailing == \E command \in FailingCommands : InitWith(command)

NextFailing ==
    \E p \in Pids :
        \/ SimpleBuiltinSetup(p)
        \/ SimpleBuiltinRun(p)
        \/ SimpleBuiltinExit(p)
        \/ ExternalFork(p)
        \/ ExternalChildSetup(p)
        \/ ExternalChildExec(p)
        \/ ProgramEnds(p)
        \/ ExternalParentHandOver(p)
        \/ ExternalParentWait(p)

SpecFailing == InitFailing /\ [][NextFailing]_vars

-----------------------------------------------------------------------------
(* External commands in the foreground, every system call a step *)

Externals ==
    {Simple("ls", <<>>), Simple("nosuch", <<>>),
     Simple("ls", <<Redirection(NoFd, "Overwrite", TargetFile("x"))>>)}
ForegroundCommands ==
    Externals
    \cup {Binary(operator, left, right) :
            operator \in Operators, left \in Externals, right \in {Simple("ls", <<>>)}}
    \cup {Group(Simple("ls", <<>>))}

InitForeground == \E command \in ForegroundCommands : InitWith(command)

NextForeground ==
    \E p \in Pids :
        \/ ExternalFork(p)
        \/ ExternalChildSetpgid(p)
        \/ ExternalChildTcsetpgrp(p)
        \/ ExternalChildExec(p)
        \/ ProgramEnds(p)
        \/ ExternalParentSetpgid(p)
        \/ ExternalParentTcsetpgrp(p)
        \/ ExternalParentWaitpid(p)
        \/ ExternalParentInterrupted(p)
        \/ ExternalParentReclaim(p)
        \/ AndLeft(p) \/ AndLeftDone(p) \/ AndRightDone(p)
        \/ OrLeft(p) \/ OrLeftDone(p) \/ OrRightDone(p)
        \/ SemicolonLeft(p) \/ SemicolonLeftDone(p) \/ SemicolonRightDone(p)
        \/ PipeCreate(p) \/ PipeForkLeft(p) \/ PipeForkRight(p)
        \/ PipeLeftChild(p) \/ PipeRightChild(p) \/ ChildExit(p)
        \/ PipeClose(p) \/ PipeWaitLeft(p) \/ PipeWaitRight(p)
        \/ BackgroundFork(p) \/ BackgroundChild(p) \/ BackgroundRightDone(p)
        \/ GroupCall(p) \/ GroupDone(p)

SpecForeground == InitForeground /\ [][NextForeground]_vars

-----------------------------------------------------------------------------
(* The lexer alone: lines of words and operator characters *)

LexerAlphabet == {"a", " ", "|", "&", ">", "<"}

InitLexer == \E input \in Lines(LexerAlphabet, MaxLine) : ReadLine(input)

NextLexer == Tokenize

SpecLexer == InitLexer /\ [][NextLexer]_vars

-----------------------------------------------------------------------------
(* Lines of words and quotes, tokenized and parsed *)

QuoteAlphabet == {"a", " ", "'", "\"", "\\"}

InitQuote == \E input \in Lines(QuoteAlphabet, MaxLine) : ReadLine(input)

NextQuote ==
    \/ Tokenize
    \/ Parse

SpecQuote == InitQuote /\ [][NextQuote]_vars

-----------------------------------------------------------------------------
(* Lines of one-word commands joined by the binary operators *)

OperatorSpellings == {<<"|">>, <<"&", "&">>, <<"|", "|">>, <<";">>, <<"&">>}
OperandNames == <<"a", "b", "c", "d", "e">>

\* a, then for each operator of ops a space, the operator, a space and the next name.
RECURSIVE Joined(_)
Joined(ops) ==
    IF ops = <<>> THEN <<OperandNames[1]>>
    ELSE Joined(SubSeq(ops, 1, Len(ops) - 1)) \o <<" ">> \o ops[Len(ops)]
            \o <<" ", OperandNames[Len(ops) + 1]>>

InitPrecedence == \E ops \in SeqsUpTo(OperatorSpellings, MaxOperators) : ReadLine(Joined(ops))

NextPrecedence ==
    \/ Tokenize
    \/ Parse

SpecPrecedence == InitPrecedence /\ [][NextPrecedence]_vars

-----------------------------------------------------------------------------
(* Lines of a command word and what follows it: redirections, descriptors, targets *)

RedirectAlphabet == {"a", "2", " ", ">", "<", "&", "'"}

InitRedirection ==
    \E tail \in Lines(RedirectAlphabet, MaxTail) : ReadLine(<<"a">> \o tail)

NextRedirection ==
    \/ Tokenize
    \/ Parse

SpecRedirection == InitRedirection /\ [][NextRedirection]_vars

-----------------------------------------------------------------------------
(* Lines of words, parentheses and separators, tokenized and parsed *)

ParenAlphabet == {"a", " ", "(", ")", ";"}

InitParen == \E input \in Lines(ParenAlphabet, MaxLine) : ReadLine(input)

NextParen ==
    \/ Tokenize
    \/ Parse

SpecParen == InitParen /\ [][NextParen]_vars

-----------------------------------------------------------------------------
(* A command line: the shell executes one command tree *)

Ls == Simple("ls", <<>>)
Cd == Simple("cd", <<>>)
Echo == Simple("echo", <<>>)
Leaves ==
    {Ls, Cd, Simple("nosuch", <<>>), Simple("exit", <<>>),
     Simple("echo", <<Redirection(NoFd, "Overwrite", TargetFile("a"))>>)}
Pairs(S) == {Binary(operator, left, right) : operator \in Operators, left \in S, right \in S}
\* Every tree of at most two leaves, the trees of two external commands combined
\* with a builtin on either side, `ls & ls | ls` and `(ls | echo) | ls`.
Commands ==
    Leaves \cup Pairs(Leaves) \cup {Group(leaf) : leaf \in Leaves}
    \cup {Binary(operator, inner, Cd) : operator \in Operators, inner \in Pairs({Ls})}
    \cup {Binary(operator, Cd, inner) : operator \in Operators, inner \in Pairs({Ls})}
    \cup {Binary("Background", Ls, Binary("Pipe", Ls, Ls))}
    \cup {Binary("Pipe", Binary("Pipe", Ls, Echo), Ls)}

Init == \E command \in Commands : InitWith(command)

Next ==
    \E p \in Pids :
        \/ SimpleBuiltinSetup(p)
        \/ SimpleBuiltinRun(p)
        \/ SimpleBuiltinSigpipe(p)
        \/ SimpleBuiltinExit(p)
        \/ ExternalFork(p)
        \/ ExternalChildSetup(p)
        \/ ExternalChildExec(p)
        \/ ProgramEnds(p)
        \/ ExternalParentHandOver(p)
        \/ ExternalParentWait(p)
        \/ AndLeft(p)
        \/ AndLeftDone(p)
        \/ AndRightDone(p)
        \/ OrLeft(p)
        \/ OrLeftDone(p)
        \/ OrRightDone(p)
        \/ SemicolonLeft(p)
        \/ SemicolonLeftDone(p)
        \/ SemicolonRightDone(p)
        \/ PipeCreate(p)
        \/ PipeForkLeft(p)
        \/ PipeForkRight(p)
        \/ PipeLeftChild(p)
        \/ PipeRightChild(p)
        \/ ChildExit(p)
        \/ PipeClose(p)
        \/ PipeWaitLeft(p)
        \/ PipeWaitRight(p)
        \/ BackgroundFork(p)
        \/ BackgroundChild(p)
        \/ BackgroundRightDone(p)
        \/ GroupCall(p)
        \/ GroupDone(p)

Spec == Init /\ [][Next]_vars

-----------------------------------------------------------------------------
(* Properties *)

\* The shell's execute call has returned to the read-eval loop.
Returned == st[ShellPid] = "shell" /\ stack[ShellPid] = <<>>

IsOp(f, operator) == f.pc # "none" /\ f.node.type = "Binary" /\ f.node.operator = operator

\* The frames of the calls p is in, and the frame of the call that returned last.
LiveFrames(p) == {stack[p][i] : i \in DOMAIN stack[p]}
ReturnedFrames(operator) == {last[p] : p \in {q \in Pids : IsOp(last[q], operator)}}
AllLiveFrames(operator) == {f \in UNION {LiveFrames(p) : p \in Pids} : IsOp(f, operator)}

\* C1: for a && b, a is evaluated first; b is evaluated only after a returned 0, and
\* then the node returns b's status; when a returned non-zero, b is never evaluated
\* and the node returns a's status.
C1_AndShortCircuit ==
    /\ \A f \in AllLiveFrames("And") :
          /\ f.pc # "start" => "left" \in f.ran
          /\ "right" \in f.ran => f.left_code = 0
    /\ \A f \in ReturnedFrames("And") :
          /\ "left" \in f.ran
          /\ IF f.left_code = 0
             THEN "right" \in f.ran /\ f.res = f.right_code
             ELSE "right" \notin f.ran /\ f.res = f.left_code /\ f.left_code > 0

\* A && node has returned its left side's non-zero status without evaluating the right.
C1_Witness ==
    \E f \in ReturnedFrames("And") : f.left_code = 2 /\ f.res = 2 /\ f.ran = {"left"}

\* C2: for a || b, a is evaluated first; when a returned 0, b is never evaluated and
\* the node returns 0; when a returned non-zero, b is evaluated and the node returns
\* b's status.
C2_OrShortCircuit ==
    /\ \A f \in AllLiveFrames("Or") :
          /\ f.pc # "start" => "left" \in f.ran
          /\ "right" \in f.ran => f.left_code > 0
    /\ \A f \in ReturnedFrames("Or") :
          /\ "left" \in f.ran
          /\ IF f.left_code = 0
             THEN "right" \notin f.ran /\ f.res = 0
             ELSE "right" \in f.ran /\ f.res = f.right_code /\ f.left_code > 0

\* A || node has evaluated its right side after a failure and returned its status.
C2_Witness ==
    \E f \in ReturnedFrames("Or") :
        f.left_code = 1 /\ f.ran = {"left", "right"} /\ f.right_code = 2 /\ f.res = 2

\* C3: for a ; b, b is evaluated only after the evaluation of a has returned, and a
\* node that returns has evaluated both and returns b's status, whatever a's was.
C3_SemicolonSequence ==
    /\ \A f \in AllLiveFrames("Semicolon") :
          /\ f.pc # "start" => "left" \in f.ran
          /\ "right" \in f.ran => f.left_code >= 0
    /\ \A f \in ReturnedFrames("Semicolon") :
          /\ f.ran = {"left", "right"}
          /\ f.left_code >= 0
          /\ f.res = f.right_code

\* A ; node whose left side failed has evaluated the right side and returned its 0.
C3_Witness ==
    \E f \in ReturnedFrames("Semicolon") : f.left_code = 2 /\ f.right_code = 0 /\ f.res = 0

\* Process c and the processes forked by it or by its descendants.
RECURSIVE DescendsFrom(_, _)
DescendsFrom(q, c) == q = c \/ (ppid[q] # 0 /\ DescendsFrom(ppid[q], c))
Family(c) == {q \in Pids : c \in Pids /\ DescendsFrom(q, c)}

\* The Pipe frames of the processes that created the pipe: <<process, frame>>.
PipeParents ==
    {pf \in UNION {{<<p, f>> : f \in LiveFrames(p)} : p \in {q \in Pids : st[q] = "shell"}} :
        /\ IsOp(pf[2], "Pipe")
        /\ pf[2].pc \in {"fork_left", "fork_right", "close_read", "wait_left", "wait_right"}}
Waiting(f) == f.pc \in {"wait_left", "wait_right"}

\* C4: a parent that is at either wait of a pipeline has made both forks and holds
\* neither end of the pipe; before its first wait it has reaped neither child.
C4_PipeWaitsAfterForksAndCloses ==
    \A pf \in PipeParents :
        LET p == pf[1]
            f == pf[2]
        IN /\ Waiting(f) =>
                /\ f.left_pid # 0 /\ f.right_pid # 0
                /\ f.left_pid > 0 => st[f.left_pid] # "unused"
                /\ f.right_pid > 0 => st[f.right_pid] # "unused"
                /\ p \notin Holders(PipeRead(f.pipe))
                /\ p \notin Holders(PipeWrite(f.pipe))
           /\ ~Waiting(f) /\ f.left_pid > 0 => st[f.left_pid] # "reaped"

\* A parent is about to wait for the left child while both children exist.
C4_Witness ==
    \E pf \in PipeParents :
        /\ pf[2].pc = "wait_left"
        /\ pf[2].left_pid > 0 /\ st[pf[2].left_pid] = "shell"
        /\ pf[2].right_pid > 0 /\ st[pf[2].right_pid] = "shell"

\* Child c of a pipeline has not yet closed the ends it inherited.
SettingUp(c) == c \in Pids /\ Running(c) /\ Top(c).pc \in {"left_child", "right_child"}

C6_PipeReturnsRightStatus ==
    \A f \in ReturnedFrames("Pipe") :
        f.right_pid > 0 =>
            /\ st[f.right_pid] = "reaped"
            /\ IF WIFEXITED(wstatus[f.right_pid])
               THEN f.res = WEXITSTATUS(wstatus[f.right_pid])
               ELSE f.res # 0

\* The child p's innermost call is blocked waiting for: the wait cannot return
\* before a child terminates.
BlockedOn(p) ==
    IF ~Running(p) THEN {}
    ELSE LET f == Top(p)
             target == CASE f.pc = "parent_wait" -> f.pid
                         [] f.pc = "wait_left" -> f.left_pid
                         [] f.pc = "wait_right" -> f.right_pid
                         [] OTHER -> 0
         IN IF target # 0 /\ \A c \in Awaited(p, target) : st[c] # "zombie"
            THEN Awaited(p, target) ELSE {}

\* C7: the parent of a Background node is never blocked in a wait that only the
\* termination of the forked child running the left side can end.
C7_ParentNeverBlocksOnBackgroundChild ==
    \A p \in Pids : \A f \in LiveFrames(p) :
        IsOp(f, "Background") /\ f.pc = "right_done" /\ f.pid > 0 =>
            BlockedOn(p) # {f.pid}

\* C8: no process of a background job leads the terminal's foreground process group.
C8_BackgroundNeverForeground ==
    \A q \in Pids : bg[q] /\ st[q] \in Live => ~(pgid[q] = q /\ ttyFg = q)

\* C9: when execute has returned to the shell after a command line that ran an
\* external command in the foreground, the terminal's foreground group is the shell's.
C9_ShellForegroundOnReturn ==
    Returned /\ fgExt => ttyFg = pgid[ShellPid]

\* C10: after execute of a builtin simple command returns, the shell's descriptor
\* table is the one it had before the call, whatever the redirections were.
C10_BuiltinRestoresDescriptors == Returned => fds[ShellPid] = fds0

\* The command the shell was given, and the file its last redirection names.
TheCommand == IF stack[ShellPid] # <<>> THEN stack[ShellPid][1].node ELSE last[ShellPid].node
LastPath(node) == node.redirects[Len(node.redirects)].target.path
\* All redirections of the node put descriptor 1 on a file.
AllToStdout(node) ==
    /\ node.type = "Simple" /\ node.redirects # <<>>
    /\ \A i \in DOMAIN node.redirects :
          /\ TargetSlot(node.redirects[i]) = 1
          /\ node.redirects[i].target.kind = "File"
          /\ node.redirects[i].operator \in {"Overwrite", "Append"}
\* The processes in which the command's body runs with the redirections applied.
BodyProcesses ==
    {p \in Pids : st[p] = "prog" \/ (Running(p) /\ At(p, "Simple", "builtin"))}
\* redirect() has been applied for the command.
Redirected ==
    \/ BodyProcesses # {}
    \/ last[ShellPid].body
    \/ \E c \in Pids \ {ShellPid} : st[c] \in {"zombie", "reaped"}

\* C11: when all redirections of a simple command resolve to descriptor 1, the body
\* runs with descriptor 1 on the file of the last one; output is written to that
\* file only, and every other file named with > has been truncated and stays empty.
C11_LaterRedirectionWins ==
    AllToStdout(TheCommand) =>
        /\ \A p \in BodyProcesses : fds[p][1] = File(LastPath(TheCommand))
        /\ \A path \in AllPaths \ {LastPath(TheCommand)} : ~files[path].written
        /\ last[ShellPid].body => files[LastPath(TheCommand)].written
        /\ Redirected =>
              \A i \in DOMAIN TheCommand.redirects :
                  LET r == TheCommand.redirects[i]
                  IN r.operator = "Overwrite" /\ r.target.path # LastPath(TheCommand)
                        => files[r.target.path] = [truncated |-> TRUE, written |-> FALSE]

\* echo > a > b has run: b holds the output, a was truncated and is empty.
C11_Witness ==
    /\ last[ShellPid].body
    /\ last[ShellPid].node =
          Simple("echo", <<Redirection(NoFd, "Overwrite", TargetFile("a")),
                           Redirection(NoFd, "Overwrite", TargetFile("b"))>>)
    /\ files["a"] = [truncated |-> TRUE, written |-> FALSE]
    /\ files["b"] = [truncated |-> TRUE, written |-> TRUE]

\* C12: an execute call in which a fork failed returns 1, and the children it did
\* create have been waited for when it returns.
C12_FailedForkFailsCommand ==
    \A p \in Pids :
        LET f == last[p]
        IN f.pc # "none" /\ (f.pid = -1 \/ f.left_pid = -1 \/ f.right_pid = -1) =>
              /\ f.res = 1
              /\ \A c \in {f.left_pid, f.right_pid} \cap Pids : st[c] = "reaped"

\* The frames of external simple commands whose fork succeeded: live, and returned.
ExternalParents ==
    {pf \in UNION {{<<p, f>> : f \in LiveFrames(p)} : p \in {q \in Pids : st[q] = "shell"}} :
        pf[2].node.type = "Simple" /\ pf[2].pid > 0 /\ ppid[pf[2].pid] = pf[1]}
ExternalReturned ==
    {last[p] : p \in {q \in Pids : /\ last[q].pc # "none" /\ last[q].node.type = "Simple"
                                    /\ last[q].pid > 0}}

\* C13: the parent of an external command is past its wait (about to take the
\* terminal back, or returned) only when the child has terminated and been waited
\* for, also when SIGINT interrupted the wait; the status it returns is that child's.
C13_ReturnsAfterChildTerminated ==
    /\ \A pf \in ExternalParents :
          pf[2].pc = "parent_reclaim" =>
              st[pf[2].pid] = "reaped" /\ pf[2].status = wstatus[pf[2].pid]
    /\ \A f \in ExternalReturned :
          st[f.pid] = "reaped" /\ f.res = ExternalStatus(wstatus[f.pid])

\* An external command has returned the exit code 2 of its child after its wait
\* was interrupted by a SIGINT.
C13_Witness ==
    \E f \in ExternalReturned :
        f.interrupts > 0 /\ st[f.pid] = "reaped" /\ wstatus[f.pid] = W_EXITCODE(2) /\ f.res = 2

\* C14: an external command whose child exited normally returns the low byte of the
\* child's exit code, one whose child was killed by a signal returns 1, and one
\* whose child could not exec or could not apply a redirection returns 1.
C14_ExternalStatusDecoded ==
    \A f \in ExternalReturned :
        /\ wstatus[f.pid] % 128 = 0 => f.res = (wstatus[f.pid] \div 256) % 256
        /\ wstatus[f.pid] % 128 # 0 => f.res = 1
        /\ ~ExecFound(f.node.executable) => f.res = 1
        /\ (\E i \in DOMAIN f.node.redirects : f.node.redirects[i].target.path \in Unopenable)
              => f.res = 1

\* An external command whose child was killed by a signal has returned 1.
C14_Witness == \E f \in ExternalReturned : wstatus[f.pid] = W_SIGNALED(9) /\ f.res = 1

\* The children of external commands that have moved past their own setpgid:
\* about to call tcsetpgrp, about to redirect and exec, or running the program.
PastSetpgid ==
    {c \in Pids : \/ At(c, "Simple", "child_tcsetpgrp")
                  \/ At(c, "Simple", "child_exec")
                  \/ st[c] = "prog"}

\* The children a parent is about to make the terminal's foreground group.
HandedTerminal == {Top(p).pid : p \in {q \in Pids : At(q, "Simple", "parent_tcsetpgrp")}}

\* C19: in every interleaving the child of an external command leads its own
\* process group when either process is about to call tcsetpgrp with the
\* child's pid and when the child is about to exec; the terminal's foreground
\* group is never a group without a process that was put in it.
C19_GroupLeaderBeforeTerminal ==
    /\ \A c \in PastSetpgid \cup HandedTerminal : pgid[c] = c
    /\ \E q \in Pids : st[q] # "unused" /\ pgid[q] = ttyFg

\* The parent is about to hand the terminal to a child that has not run yet:
\* it was the parent's setpgid that made the child lead its group.
C19_Witness ==
    \E c \in HandedTerminal : At(c, "Simple", "child_setpgid") /\ pgid[c] = c

\* A redirection that cannot be applied: a file target with an operator that
\* opens no file, or a file that cannot be opened.
Fails(r) ==
    /\ r.target.kind = "File"
    /\ r.operator \in {"HereDoc", "DuplicateIn", "DuplicateOut"} \/ r.target.path \in Unopenable

\* The first redirection of the list that fails, 0 without one.
FirstFailing(redirects) ==
    IF \A i \in DOMAIN redirects : ~Fails(redirects[i]) THEN 0
    ELSE CHOOSE i \in DOMAIN redirects :
            Fails(redirects[i]) /\ \A j \in 1..(i - 1) : ~Fails(redirects[j])

\* The files the redirections before index k truncate.
TruncatedBefore(redirects, k) ==
    {redirects[i].target.path : i \in {j \in 1..(k - 1) : redirects[j].operator = "Overwrite"}}

\* C21: when a redirection of a simple command fails, the body never runs: a
\* builtin returns 1 without its body, the child of an external command exits
\* with 1 and never execs, and no redirection after the failing one is
\* applied (no file it names is truncated or written).
C21_FailedRedirectionSkipsBody ==
    TheCommand.type = "Simple" /\ FirstFailing(TheCommand.redirects) > 0 =>
        /\ BodyProcesses = {}
        /\ st[ShellPid] = "shell"
        /\ last[ShellPid].pc # "none" /\ is_builtin(TheCommand) =>
              last[ShellPid].res = 1 /\ ~last[ShellPid].body
        /\ \A c \in Pids \ {ShellPid} :
              st[c] \in {"zombie", "reaped"} => wstatus[c] = W_EXITCODE(1)
        /\ \A path \in AllPaths :
              /\ ~files[path].written
              /\ files[path].truncated =>
                    path \in TruncatedBefore(TheCommand.redirects,
                                             FirstFailing(TheCommand.redirects))

\* ls > a < x: the child truncated a, could not open x and exited with 1.
C21_Witness ==
    /\ TheCommand = Simple("ls", <<Redirection(NoFd, "Overwrite", TargetFile("a")),
                                   Redirection(NoFd, "Input", TargetFile("x"))>>)
    /\ \E c \in Pids \ {ShellPid} : st[c] = "zombie" /\ wstatus[c] = W_EXITCODE(1)
    /\ files["a"].truncated

\* The processes forked inside execute.
Forks == {c \in Pids \ {ShellPid} : st[c] # "unused"}

\* The process is inside the call of execute that forked it.
InForkingCall(c) == \E i \in DOMAIN stack[c] : stack[c][i].child = c

\* C22: only the process that called execute returns from it. A process
\* forked inside execute stays inside the call that forked it until it execs
\* or exits: it never returns from that call and is never back in the read-eval
\* loop, whether the exec or a redirection fails or not.
C22_ForkedChildNeverReturns ==
    \A c \in Forks :
        /\ st[c] = "shell" => InForkingCall(c)
        /\ last[c].child # c

\* The shell is back in its loop, and a child whose exec or redirection failed
\* has exited with 1 without returning from any call.
C22_Witness ==
    /\ Returned
    /\ \E c \in Forks :
          st[c] \in {"zombie", "reaped"} /\ wstatus[c] = W_EXITCODE(1) /\ last[c] = NoFrame

-----------------------------------------------------------------------------
(* Properties of the lexer *)

\* The token an operator is written for, EOF for what is no operator.
Spelled(text) ==
    CASE text = <<"|", "|">> -> Token("Or")
      [] text = <<"|">> -> Token("Pipe")
      [] text = <<"&", "&">> -> Token("And")
      [] text = <<"&">> -> Token("Background")
      [] text = <<">", ">">> -> RedirectOperatorToken("Append")
      [] text = <<">", "&">> -> RedirectOperatorToken("DuplicateOut")
      [] text = <<">">> -> RedirectOperatorToken("Overwrite")
      [] text = <<"<", "<">> -> RedirectOperatorToken("HereDoc")
      [] text = <<"<", "&">> -> RedirectOperatorToken("DuplicateIn")
      [] text = <<"<">> -> RedirectOperatorToken("Input")
      [] OTHER -> EOF

\* The positions of line that hold an operator character.
OperatorPositions == {i \in 1..Len(line) : is_operator(line[i])}

\* The operator characters of line, when they stand side by side.
OperatorRun ==
    LET lo == CHOOSE i \in OperatorPositions : \A j \in OperatorPositions : i <= j
        hi == CHOOSE i \in OperatorPositions : \A j \in OperatorPositions : j <= i
    IN IF OperatorPositions # {} /\ OperatorPositions = lo..hi THEN SubSeq(line, lo, hi) ELSE <<>>

\* The tokens that are no words.
OperatorTokens(ts) == SelectSeq(ts, LAMBDA t : t.type # "Word")

\* C15: a line whose operator characters are one operator of the specification's
\* table, alone or between words, gives the token of that operator and no
\* other operator token: || Or, | Pipe, && And, & Background, >> Append,
\* >& DuplicateOut, > Overwrite, << HereDoc, <& DuplicateIn, < Input.
C15_TwoCharacterOperators ==
    "tokens" \in stage /\ Spelled(OperatorRun) # EOF =>
        OperatorTokens(tokens) = <<Spelled(OperatorRun)>>

-----------------------------------------------------------------------------
(* Properties of the parser *)

\* The Simple commands of a tree the parser returns.
RECURSIVE Simples(_)
Simples(node) ==
    CASE node.type = "Simple" -> {node}
      [] node.type = "Pipeline" -> Simples(node.left) \cup Simples(node.right)
      [] node.type = "List" -> UNION {Simples(node.commands[i]) : i \in 1..Len(node.commands)}

ParsedOk == "parse" \in stage /\ parsed.ok

\* C16: every Simple command of a tree a successful parse returns has a
\* non-empty executable, whatever the line: empty quoted strings and
\* unterminated quotes included.
C16_ExecutableNonEmpty ==
    ParsedOk => \A node \in Simples(parsed.command) : node.executable # <<>>

\* The operator a node joins its two operands with, "" for a Simple command.
\* A List is read from left to right: its last separator joins what stands
\* before it with its last command.
RootOperator(node) ==
    CASE node.type = "Pipeline" -> "Pipe"
      [] node.type = "List" -> node.separators[Len(node.separators)]
      [] OTHER -> ""

LeftOperand(node) ==
    CASE node.type = "Pipeline" -> node.left
      [] node.type = "List" ->
            IF Len(node.commands) = 2 THEN node.commands[1]
            ELSE List(SubSeq(node.commands, 1, Len(node.commands) - 1),
                      SubSeq(node.separators, 1, Len(node.separators) - 1))

RightOperand(node) ==
    CASE node.type = "Pipeline" -> node.right
      [] node.type = "List" -> node.commands[Len(node.commands)]

Precedence(operator) ==
    CASE operator = "Pipe" -> 4
      [] operator = "And" -> 3
      [] operator = "Or" -> 2
      [] operator \in {"Semicolon", "Background"} -> 1
      [] OTHER -> 5

\* Every operator of the tree binds no tighter than the operator of its left
\* operand and less tightly than the operator of its right operand.
RECURSIVE BindsByPrecedence(_)
BindsByPrecedence(node) ==
    node.type # "Simple" =>
        /\ Precedence(RootOperator(LeftOperand(node))) >= Precedence(RootOperator(node))
        /\ Precedence(RootOperator(RightOperand(node))) > Precedence(RootOperator(node))
        /\ BindsByPrecedence(LeftOperand(node))
        /\ BindsByPrecedence(RightOperand(node))

\* C17: the tree parse returns groups the commands of the line by the
\* precedence Pipe > And > Or > {Semicolon, Background}, chains of equal
\* precedence to the left: a | b && c as (a | b) && c, a || b && c as
\* a || (b && c), a && b ; c as (a && b) ; c, a | b | c as (a | b) | c.
C17_PrecedenceGrouping == ParsedOk => BindsByPrecedence(parsed.command)

\* The words typed on a line of words and quotes, read from character i on:
\* blanks outside quotes end a word, a quote opens a run that its next
\* occurrence closes, the two delimiters are dropped, and inside double quotes
\* a backslash stands for the character after it. quote is the open quote or
\* "", word the word read so far, begun says that it has begun. The result
\* says whether every quote was closed.
RECURSIVE TypedFrom(_, _, _, _, _)
TypedFrom(i, quote, word, begun, words) ==
    LET ended == IF begun THEN Append(words, word) ELSE words
    IN IF i > Len(line) THEN [terminated |-> quote = "", words |-> ended]
       ELSE CASE quote = "" /\ line[i] = " " -> TypedFrom(i + 1, "", <<>>, FALSE, ended)
              [] quote = "" /\ line[i] \in {"'", "\""} -> TypedFrom(i + 1, line[i], word, TRUE, words)
              [] quote # "" /\ line[i] = quote -> TypedFrom(i + 1, "", word, TRUE, words)
              [] quote = "\"" /\ line[i] = "\\" /\ i < Len(line) ->
                    TypedFrom(i + 2, quote, Append(word, line[i + 1]), TRUE, words)
              [] OTHER -> TypedFrom(i + 1, quote, Append(word, line[i]), TRUE, words)

Typed == TypedFrom(1, "", <<>>, FALSE, <<>>)

\* C18: a line of words and terminated quotes, no operator in it, parses to
\* the Simple command whose executable and args are the words typed: quote
\* delimiters removed, backslashes resolved inside double quotes only, a
\* quoted run next to unquoted characters being part of one word.
C18_WordsAsTyped ==
    "parse" \in stage /\ Typed.terminated /\ Typed.words # <<>> =>
        /\ parsed.ok
        /\ parsed.command.type = "Simple"
        /\ <<parsed.command.executable>> \o parsed.command.args = Typed.words

\* The first Simple command of a tree.
RECURSIVE FirstSimple(_)
FirstSimple(node) ==
    CASE node.type = "Pipeline" -> FirstSimple(node.left)
      [] node.type = "List" -> FirstSimple(node.commands[1])
      [] OTHER -> node

\* The first token of the line that is no word and no quoted string, 0 without one.
FirstOperator ==
    IF \A i \in 1..Len(tokens) : IsText(tokens[i]) THEN 0
    ELSE CHOOSE i \in 1..Len(tokens) : ~IsText(tokens[i]) /\ \A j \in 1..(i - 1) : IsText(tokens[j])

\* The line has been lexed and parsed and its first operator is a redirection.
RedirectionParsed ==
    /\ stage = {"tokens", "parse"}
    /\ FirstOperator > 0
    /\ tokens[FirstOperator].type = "RedirectOperator"

IsInteger(token) ==
    /\ token.type = "Word"
    /\ token.text # <<>>
    /\ \A i \in 1..Len(token.text) : IsDigit(token.text[i])

\* What the first redirection of the line is to be, from the tokens after its operator.
HasDescriptor == FirstOperator < Len(tokens) /\ IsInteger(tokens[FirstOperator + 1])
TargetAt == IF HasDescriptor THEN FirstOperator + 2 ELSE FirstOperator + 1
HasTarget == TargetAt <= Len(tokens) /\ IsText(tokens[TargetAt])
DefaultDescriptor ==
    IF tokens[FirstOperator].operator \in {"Input", "HereDoc", "DuplicateIn"} THEN 0 ELSE 1
Descriptor ==
    IF HasDescriptor THEN DecimalValue(tokens[FirstOperator + 1].text) ELSE DefaultDescriptor

C23_ParseConsumesAll == ParsedOk => parsed.current_token = EOF

====
